---- MODULE Spec2Model ----
(***************************************************************************)
(* A model of package hashstructure (src/hashstructure.go): Hash, the      *)
(* recursive walker.visit, the two combinators and hashNumber, over a      *)
(* closed representation of the Go values reflect hands to the walker.     *)
(*                                                                         *)
(* A uint64 is a tuple of 8 bytes, least significant first (the order in   *)
(* which the code writes it to the hasher).  The default hasher,           *)
(* fnv.New64() (FNV-1, 64 bit), is computed exactly on that form.          *)
(***************************************************************************)
EXTENDS Integers, Sequences, FiniteSets, TLC

\* ------------------------------------------------------------------ bytes

RECURSIVE XorBits(_, _)
\* a ^ b, bit by bit
XorBits(a, b) ==
    IF a = 0 THEN b
    ELSE IF b = 0 THEN a
    ELSE (((a % 2) + (b % 2)) % 2) + 2 * XorBits(a \div 2, b \div 2)

\* a ^ b on two half bytes, tabulated
XorNibble == [a \in 0..15 |-> [b \in 0..15 |-> XorBits(a, b)]]

\* a ^ b on two bytes
XorByte(a, b) ==
    XorNibble[a % 16][b % 16] + 16 * XorNibble[a \div 16][b \div 16]

ZeroU64 == <<0, 0, 0, 0, 0, 0, 0, 0>>

\* the uint64 of a small non-negative integer n
RECURSIVE NatBytes(_, _)
NatBytes(n, w) ==
    IF w = 0 THEN <<>> ELSE <<(n % 256)>> \o NatBytes(n \div 256, w - 1)

\* uintW(n) for a Go integer n of any sign: two's complement on w bytes
IntBytes(n, w) ==
    IF n >= 0 THEN NatBytes(n, w)
    ELSE [i \in 1..w |-> 255 - NatBytes(-n - 1, w)[i]]

\* ------------------------------------------------------- hash/fnv (FNV-1)

\* offset64 = 14695981039346656037 = 0xcbf29ce484222325
Offset64 == <<37, 35, 34, 132, 228, 156, 242, 203>>

\* x * prime64 mod 2^64, prime64 = 1099511628211 = 2^40 + 435: byte i of the
\* product is byte i of x * 435, plus byte i - 5 of x, plus the carry
MulPrime(x) ==
    LET t1 == x[1] * 435
        t2 == (x[2] * 435) + (t1 \div 256)
        t3 == (x[3] * 435) + (t2 \div 256)
        t4 == (x[4] * 435) + (t3 \div 256)
        t5 == (x[5] * 435) + (t4 \div 256)
        t6 == (x[6] * 435) + x[1] + (t5 \div 256)
        t7 == (x[7] * 435) + x[2] + (t6 \div 256)
        t8 == (x[8] * 435) + x[3] + (t7 \div 256)
    IN  << t1 % 256, t2 % 256, t3 % 256, t4 % 256,
           t5 % 256, t6 % 256, t7 % 256, t8 % 256 >>

\* one step of sum64.Write: hash *= prime64; hash ^= uint64(c)
FnvStep(st, c) ==
    LET m == MulPrime(st) IN [m EXCEPT ![1] = XorByte(m[1], c)]

RECURSIVE FnvWrite(_, _, _)
FnvWrite(st, data, i) ==
    IF i > Len(data) THEN st ELSE FnvWrite(FnvStep(st, data[i]), data, i + 1)


\* ------------------------------------------------------- hash.Hash64

\* opts.Hasher as handed in by a caller: the default FNV-1 hasher, or a
\* hasher of the caller's own whose Write also reports an error.
FreshHasher == [kind |-> "fnv", st |-> Offset64]

NoHasher == [kind |-> "nil", st |-> ZeroU64]

\* HReset with the state left as it is (a Reset that was forgotten)
HResetNoop(h) == h

HReset(h) == [h EXCEPT !.st = Offset64]

HWrite(h, data) == [h EXCEPT !.st = FnvWrite(h.st, data, 1)]

HWriteErr(h) == h.kind = "failw"

HSum64(h) == h.st

\* ------------------------------------------------------------- errors

NoErr == [code |-> "nil", field |-> <<>>, kind |-> ""]

ErrNotStringer(f) == [code |-> "ErrNotStringer", field |-> f, kind |-> ""]

ErrUnknownKind(k) == [code |-> "unknown kind to hash", field |-> <<>>, kind |-> k]

ErrHook == [code |-> "hook", field |-> <<>>, kind |-> ""]

ErrWrite == [code |-> "write", field |-> <<>>, kind |-> ""]

Failed(sum, err, h) == [sum |-> sum, err |-> err, h |-> h]

\* ------------------------------------------------- reflect: kinds, types

\* reflect.Kind, in the order of its constants
KindOrd(k) ==
    CASE k = "invalid" -> 0 [] k = "bool" -> 1 [] k = "int" -> 2
      [] k = "int8" -> 3 [] k = "int16" -> 4 [] k = "int32" -> 5
      [] k = "int64" -> 6 [] k = "uint" -> 7 [] k = "uint8" -> 8
      [] k = "uint16" -> 9 [] k = "uint32" -> 10 [] k = "uint64" -> 11
      [] k = "uintptr" -> 12 [] k = "float32" -> 13 [] k = "float64" -> 14
      [] k = "complex64" -> 15 [] k = "complex128" -> 16 [] k = "array" -> 17
      [] k = "chan" -> 18 [] k = "func" -> 19 [] k = "interface" -> 20
      [] k = "map" -> 21 [] k = "ptr" -> 22 [] k = "slice" -> 23
      [] k = "string" -> 24 [] k = "struct" -> 25

\* the zero reflect.Value: reflect.ValueOf(nil), Indirect of a nil pointer,
\* Elem of a nil interface
Invalid == [kind |-> "invalid"]

\* values -----------------------------------------------------------------
BoolV(b) == [kind |-> "bool", named |-> FALSE, b |-> b]

IntV(k, n) == [kind |-> k, named |-> FALSE, n |-> n]

\* a value of a defined type whose underlying type is k (type MyInt int)
NamedIntV(k, n) == [kind |-> k, named |-> TRUE, n |-> n]

F32(sign, exp, mant) == [sign |-> sign, exp |-> exp, mant |-> mant]

F64(sign, exp, hi, lo) == [sign |-> sign, exp |-> exp, hi |-> hi, lo |-> lo]

Float32V(f) == [kind |-> "float32", named |-> FALSE, f |-> f]

Float64V(f) == [kind |-> "float64", named |-> FALSE, f |-> f]

Complex64V(re, im) == [kind |-> "complex64", named |-> FALSE, re |-> re, im |-> im]

StringV(s) == [kind |-> "string", s |-> s]

ArrayV(et, elems) == [kind |-> "array", et |-> et, elems |-> elems]

SliceV(et, elems) == [kind |-> "slice", et |-> et, elems |-> elems]

\* entries in the order v.MapKeys() returns them
MapV(kt, vt, entries) == [kind |-> "map", kt |-> kt, vt |-> vt, entries |-> entries]

Entry(k, v, inc) == [k |-> k, v |-> v, inc |-> inc]

PtrV(to, elem) == [kind |-> "ptr", to |-> to, elem |-> elem]

IfaceV(elem) == [kind |-> "interface", elem |-> elem]

ChanV == [kind |-> "chan"]

Complex128V == [kind |-> "complex128"]

\* hook: the type implements Includable; mapHook: it implements IncludableMap
StructV(name, hook, mapHook, fields) ==
    [kind |-> "struct", name |-> name, hook |-> hook, mapHook |-> mapHook,
     fields |-> fields]

\* a field: its name, its tag `tagKey:"tagVal"`, its value, whether the value
\* implements fmt.Stringer and what String() returns, and what the struct's
\* HashInclude answers for it ("yes", "no", "err")
Field(name, tagKey, tagVal, val, hasStr, str, inc) ==
    [name |-> name, tagKey |-> tagKey, tagVal |-> tagVal, val |-> val,
     hasStr |-> hasStr, str |-> str, inc |-> inc]

\* a plain exported field
F(name, val) == Field(name, "", "", val, FALSE, <<>>, "yes")

\* a tagged field
FT(name, tagKey, tagVal, val) == Field(name, tagKey, tagVal, val, FALSE, <<>>, "yes")

\* types ------------------------------------------------------------------
NumT(k) == [kind |-> k, named |-> FALSE]

IntType == NumT("int")

StringT == [kind |-> "string"]

IfaceT == [kind |-> "interface"]

PtrT(to) == [kind |-> "ptr", to |-> to]

RECURSIVE TypeOf(_)
\* v.Type()
TypeOf(v) ==
    CASE v.kind = "string" -> StringT
      [] v.kind = "interface" -> IfaceT
      [] v.kind = "ptr" -> PtrT(v.to)
      [] v.kind = "slice" -> [kind |-> "slice", et |-> v.et]
      [] v.kind = "array" -> [kind |-> "array", et |-> v.et, len |-> Len(v.elems)]
      [] v.kind = "map" -> [kind |-> "map", kt |-> v.kt, vt |-> v.vt]
      [] v.kind = "chan" -> [kind |-> "chan"]
      [] v.kind = "complex128" -> [kind |-> "complex128"]
      [] v.kind = "struct" ->
           [kind |-> "struct", name |-> v.name, hook |-> v.hook,
            mapHook |-> v.mapHook,
            fields |-> [i \in 1..Len(v.fields) |->
                          [v.fields[i] EXCEPT !.val = TypeOf(v.fields[i].val)]]]
      [] OTHER -> [kind |-> v.kind, named |-> v.named]

RECURSIVE Zero(_)
\* reflect.Zero(t)
Zero(t) ==
    CASE t.kind = "string" -> StringV(<<>>)
      [] t.kind = "interface" -> IfaceV(Invalid)
      [] t.kind = "ptr" -> PtrV(t.to, Invalid)
      [] t.kind = "slice" -> SliceV(t.et, <<>>)
      [] t.kind = "array" -> ArrayV(t.et, [i \in 1..t.len |-> Zero(t.et)])
      [] t.kind = "map" -> MapV(t.kt, t.vt, <<>>)
      [] t.kind = "chan" -> ChanV
      [] t.kind = "complex128" -> Complex128V
      [] t.kind = "struct" ->
           StructV(t.name, t.hook, t.mapHook,
                   [i \in 1..Len(t.fields) |->
                      [t.fields[i] EXCEPT !.val = Zero(t.fields[i].val)]])
      [] t.kind = "bool" -> [kind |-> "bool", named |-> t.named, b |-> FALSE]
      [] t.kind = "float32" ->
           [kind |-> "float32", named |-> t.named, f |-> F32(0, 0, 0)]
      [] t.kind = "float64" ->
           [kind |-> "float64", named |-> t.named, f |-> F64(0, 0, 0, 0)]
      [] t.kind = "complex64" ->
           [kind |-> "complex64", named |-> t.named, re |-> F32(0, 0, 0),
            im |-> F32(0, 0, 0)]
      [] OTHER -> [kind |-> t.kind, named |-> t.named, n |-> 0]

\* reflect.ValueOf(v) of the interface{} Hash receives: the dynamic value,
\* the zero Value for nil
RECURSIVE ValueOf(_)
ValueOf(v) == IF v.kind = "interface" THEN ValueOf(v.elem) ELSE v


\* ------------------------------------------------------------ combinators

\* hashUpdateOrdered combining by XOR, without the hasher
hashUpdateOrderedXor(h, a, b) ==
    [sum |-> [i \in 1..8 |-> XorByte(a[i], b[i])], h |-> h]

\* Reset, write the 8 bytes of a then the 8 bytes of b, Sum64
hashUpdateOrdered(h, a, b) ==
    LET h1 == HWrite(HReset(h), a \o b) IN [sum |-> HSum64(h1), h |-> h1]

\* hashUpdateUnordered mixing a before the XOR, as a positional combinator does
hashUpdateUnorderedMixed(a, b) == [i \in 1..8 |-> XorByte(MulPrime(a)[i], b[i])]

\* a ^ b
hashUpdateUnordered(a, b) == [i \in 1..8 |-> XorByte(a[i], b[i])]

\* ------------------------------------------------------------- hashNumber

\* Float32bits of the absolute value: the sign bit dropped
Float32bitsAbs(f) ==
    << f.mant % 256, (f.mant \div 256) % 256,
       (f.mant \div 65536) + ((f.exp % 2) * 128), f.exp \div 2 >>

\* math.Float32bits: sign<<31 | exp<<23 | mant, as a uint32
Float32bits(f) ==
    << f.mant % 256, (f.mant \div 256) % 256,
       (f.mant \div 65536) + ((f.exp % 2) * 128), (f.exp \div 2) + (f.sign * 128) >>

\* math.Float64bits: sign<<63 | exp<<52 | mant (mant = hi<<32 | lo), as a uint64
Float64bits(f) ==
    NatBytes(f.lo, 4) \o
    << f.hi % 256, (f.hi \div 256) % 256,
       (f.hi \div 65536) + ((f.exp % 16) * 16), (f.exp \div 16) + (f.sign * 128) >>

hash8(h, i) ==
    LET h1 == HWrite(HReset(h), <<i[1]>>) IN [sum |-> HSum64(h1), h |-> h1]

hash16(h, i) ==
    LET h1 == HWrite(HReset(h), <<i[1], i[2]>>) IN [sum |-> HSum64(h1), h |-> h1]

hash32(h, i) ==
    LET h1 == HWrite(HReset(h), <<i[1], i[2], i[3], i[4]>>)
    IN  [sum |-> HSum64(h1), h |-> h1]

hash64(h, i) ==
    LET h1 == HWrite(HReset(h), <<i[1], i[2], i[3], i[4], i[5], i[6], i[7], i[8]>>)
    IN  [sum |-> HSum64(h1), h |-> h1]

\* the size binary.Write gives a value of kind k; 0: not fixed-size (int, uint,
\* uintptr), for which it writes nothing and returns an error
BinarySize(k) ==
    CASE k \in {"bool", "int8", "uint8"} -> 1
      [] k \in {"int16", "uint16"} -> 2
      [] k \in {"int32", "uint32", "float32"} -> 4
      [] k \in {"int64", "uint64", "float64", "complex64"} -> 8
      [] OTHER -> 0

\* the bytes binary.Write(h, binary.LittleEndian, i) writes
BinaryBytes(v) ==
    CASE v.kind = "bool" -> <<IF v.b THEN 1 ELSE 0>>
      [] v.kind = "float32" -> Float32bits(v.f)
      [] v.kind = "float64" -> Float64bits(v.f)
      [] v.kind = "complex64" -> Float32bits(v.re) \o Float32bits(v.im)
      [] OTHER -> IntBytes(v.n, BinarySize(v.kind))

\* the type switch is on the dynamic type: a value of a defined type
\* (type MyInt int) matches no case and takes the default branch.
\* complex64 is read as a uint64 through unsafe.Pointer (little-endian host).
hashNumber(h, v) ==
    CASE v.named ->
           LET h1 == HReset(h)
               h2 == IF BinarySize(v.kind) = 0 THEN h1 ELSE HWrite(h1, BinaryBytes(v))
           IN  [sum |-> HSum64(h2), h |-> h2]
      [] v.kind = "bool" -> IF v.b THEN hash8(h, <<1>>) ELSE hash8(h, <<0>>)
      [] v.kind \in {"int8", "uint8"} -> hash8(h, IntBytes(v.n, 1))
      [] v.kind \in {"int16", "uint16"} -> hash16(h, IntBytes(v.n, 2))
      [] v.kind \in {"int32", "uint32"} -> hash32(h, IntBytes(v.n, 4))
      [] v.kind = "float32" -> hash32(h, Float32bits(v.f))
      [] v.kind \in {"int", "int64", "uint", "uint64", "uintptr"} ->
           hash64(h, IntBytes(v.n, 8))
      [] v.kind = "float64" -> hash64(h, Float64bits(v.f))
      [] v.kind = "complex64" -> hash64(h, Float32bits(v.re) \o Float32bits(v.im))

\* ---------------------------------------------------------------- walker

\* visitFlagSet = iota << 1 with iota = 1
visitFlagSet == 2

HasFlag(flags, bit) == (flags \div bit) % 2 = 1

\* visitOpts{}
NoVisitOpts == [Flags |-> 0, Struct |-> Invalid, StructField |-> <<>>]

Underscore == <<95>>

\* StructField.PkgPath is empty exactly for an exported name (upper case first)
PkgPath(f) ==
    IF Len(f.name) > 0 /\ f.name[1] \in 65..90 THEN "" ELSE "pkg"

\* fieldType.Tag.Get(key)
TagGet(f, key) == IF f.tagKey = key THEN f.tagVal ELSE ""

RECURSIVE DerefTyped(_, _, _, _)
\* Deref taking the pointee type whether or not ZeroNil is set
DerefTyped(v, cs, t, zeronil) ==
    IF v.kind = "interface" THEN DerefTyped(v.elem, FALSE, t, zeronil)
    ELSE IF v.kind = "ptr" THEN DerefTyped(v.elem, TRUE, v.to, zeronil)
    ELSE [v |-> v, cs |-> cs, t |-> t]

RECURSIVE Deref(_, _, _, _)
\* the loop of visit: unwrap interfaces and pointers.  cs is v.CanSet().
Deref(v, cs, t, zeronil) ==
    IF v.kind = "interface" THEN Deref(v.elem, FALSE, t, zeronil)
    ELSE IF v.kind = "ptr"
         THEN Deref(v.elem, TRUE, IF zeronil THEN v.to ELSE t, zeronil)
    ELSE [v |-> v, cs |-> cs, t |-> t]

RECURSIVE visit(_, _, _, _)
RECURSIVE visitArray(_, _, _, _, _)
RECURSIVE visitMap(_, _, _, _, _)
RECURSIVE visitStruct(_, _, _, _, _)
RECURSIVE visitSlice(_, _, _, _, _)

\* case reflect.Array, from element i on with h so far
visitArray(w, v, cs, i, h) ==
    IF i > Len(v.elems) THEN [sum |-> h, err |-> NoErr, h |-> w.h]
    ELSE LET current == visit(w, v.elems[i], cs, NoVisitOpts)
         IN  IF current.err # NoErr THEN Failed(ZeroU64, current.err, current.h)
             ELSE LET u == hashUpdateOrdered(current.h, h, current.sum)
                  IN  visitArray([w EXCEPT !.h = u.h], v, cs, i + 1, u.sum)

\* case reflect.Map, from entry i on (in MapKeys order) with h so far
visitMap(w, v, opts, i, h) ==
    IF i > Len(v.entries) THEN [sum |-> h, err |-> NoErr, h |-> w.h]
    ELSE LET e == v.entries[i]
             includeMap == opts.Struct.kind = "struct" /\ opts.Struct.mapHook
         IN  IF includeMap /\ e.inc = "err" THEN Failed(ZeroU64, ErrHook, w.h)
             ELSE IF includeMap /\ e.inc = "no" THEN visitMap(w, v, opts, i + 1, h)
             ELSE LET kh == visit(w, e.k, FALSE, NoVisitOpts)
                  IN  IF kh.err # NoErr THEN Failed(ZeroU64, kh.err, kh.h)
                      ELSE LET vh == visit([w EXCEPT !.h = kh.h], e.v, FALSE, NoVisitOpts)
                           IN  IF vh.err # NoErr THEN Failed(ZeroU64, vh.err, vh.h)
                               ELSE LET fieldHash == hashUpdateOrdered(vh.h, kh.sum, vh.sum)
                                    IN  visitMap([w EXCEPT !.h = fieldHash.h], v, opts, i + 1,
                                                 hashUpdateUnordered(h, fieldHash.sum))

\* SkipField without the test of the tag
SkipFieldUntagged(w, f, cs) ==
    \/ ~(cs \/ f.name # Underscore)
    \/ PkgPath(f) # ""

\* whether the loop of case reflect.Struct passes over field f: the guard on
\* the blank name, unexported, tagged "ignore" or "-"
SkipField(w, f, cs) ==
    \/ ~(cs \/ f.name # Underscore)
    \/ PkgPath(f) # ""
    \/ TagGet(f, w.tag) = "ignore"
    \/ TagGet(f, w.tag) = "-"

\* case reflect.Struct, from field i on with h so far
visitStruct(w, v, cs, i, h) ==
    IF i > Len(v.fields) THEN [sum |-> h, err |-> NoErr, h |-> w.h]
    ELSE LET f == v.fields[i]
             tag == TagGet(f, w.tag)
         IN  IF SkipField(w, f, cs) THEN visitStruct(w, v, cs, i + 1, h)
             ELSE IF tag = "string" /\ ~f.hasStr
                  THEN Failed(ZeroU64, ErrNotStringer(f.name), w.h)
             ELSE IF v.hook /\ f.inc = "err" THEN Failed(ZeroU64, ErrHook, w.h)
             ELSE IF v.hook /\ f.inc = "no" THEN visitStruct(w, v, cs, i + 1, h)
             ELSE LET innerV == IF tag = "string" THEN StringV(f.str) ELSE f.val
                      innerCs == IF tag = "string" THEN FALSE ELSE cs
                      flags == IF tag = "set" THEN visitFlagSet ELSE 0
                      kh == visit(w, StringV(f.name), FALSE, NoVisitOpts)
                  IN  IF kh.err # NoErr THEN Failed(ZeroU64, kh.err, kh.h)
                      ELSE LET vh == visit([w EXCEPT !.h = kh.h], innerV, innerCs,
                                           [Flags |-> flags, Struct |-> v,
                                            StructField |-> f.name])
                           IN  IF vh.err # NoErr THEN Failed(ZeroU64, vh.err, vh.h)
                               ELSE LET fieldHash == hashUpdateOrdered(vh.h, kh.sum, vh.sum)
                                    IN  visitStruct([w EXCEPT !.h = fieldHash.h], v, cs, i + 1,
                                                    hashUpdateUnordered(h, fieldHash.sum))

\* case reflect.Slice, from element i on with h so far
visitSlice(w, v, opts, i, h) ==
    IF i > Len(v.elems) THEN [sum |-> h, err |-> NoErr, h |-> w.h]
    ELSE LET set == HasFlag(opts.Flags, visitFlagSet)
             current == visit(w, v.elems[i], TRUE, NoVisitOpts)
         IN  IF current.err # NoErr THEN Failed(ZeroU64, current.err, current.h)
             ELSE IF set
                  THEN visitSlice([w EXCEPT !.h = current.h], v, opts, i + 1,
                                  hashUpdateUnordered(h, current.sum))
                  ELSE LET u == hashUpdateOrdered(current.h, h, current.sum)
                       IN  visitSlice([w EXCEPT !.h = u.h], v, opts, i + 1, u.sum)

\* case reflect.String: Reset, Write the bytes, return Sum64 and Write's error
visitString(w, v) ==
    LET h1 == HWrite(HReset(w.h), v.s)
    IN  [sum |-> HSum64(h1), err |-> IF HWriteErr(h1) THEN ErrWrite ELSE NoErr, h |-> h1]

\* walker.visit; w = [h, tag, zeronil], the result = [sum, err] and the hasher
visit(w, v0, cs0, opts) ==
    LET r == Deref(v0, cs0, IntType, w.zeronil)
        v == IF r.v.kind = "invalid" THEN Zero(r.t) ELSE r.v
        cs == IF r.v.kind = "invalid" THEN FALSE ELSE r.cs
        k == v.kind
    IN  IF KindOrd(k) >= KindOrd("bool") /\ KindOrd(k) <= KindOrd("complex64")
        THEN LET n == hashNumber(w.h, v) IN [sum |-> n.sum, err |-> NoErr, h |-> n.h]
        ELSE CASE k = "array" -> visitArray(w, v, cs, 1, ZeroU64)
               [] k = "map" -> visitMap(w, v, opts, 1, ZeroU64)
               [] k = "struct" ->
                    LET th == visit(w, StringV(v.name), FALSE, NoVisitOpts)
                    IN  IF th.err # NoErr THEN Failed(ZeroU64, th.err, th.h)
                        ELSE visitStruct([w EXCEPT !.h = th.h], v, cs, 1, th.sum)
               [] k = "slice" -> visitSlice(w, v, opts, 1, ZeroU64)
               [] k = "string" -> visitString(w, v)
               [] OTHER -> Failed(ZeroU64, ErrUnknownKind(k), w.h)

\* ------------------------------------------------------------------ Hash

\* a HashOptions value; Hasher names the hasher object ("nil": unset)
HashOptions(hasher, tagName, zeroNil) ==
    [Hasher |-> hasher, TagName |-> tagName, ZeroNil |-> zeroNil]

\* &HashOptions{}
ZeroOptions == HashOptions("nil", "", FALSE)

\* if opts.Hasher == nil { opts.Hasher = fnv.New64() }
DefaultHasher(o) == IF o.Hasher = "nil" THEN [o EXCEPT !.Hasher = "fnv"] ELSE o

\* DefaultTagName leaving the caller's value alone
DefaultTagNameKept(o) == o

\* if opts.TagName == "" { opts.TagName = "hash" }
DefaultTagName(o) == IF o.TagName = "" THEN [o EXCEPT !.TagName = "hash"] ELSE o

\* Hash(v, opts): passNil is opts == nil; o is *opts and hobj the hasher object
\* o.Hasher refers to.  The result: the returned pair, and *opts and the hasher
\* object as the call leaves them.
Hash(v, passNil, o, hobj) ==
    LET o0 == IF passNil THEN ZeroOptions ELSE o
        o1 == DefaultTagName(DefaultHasher(o0))
        h0 == IF o0.Hasher = "nil" THEN FreshHasher ELSE hobj
        w == [h |-> HReset(h0), tag |-> o1.TagName, zeronil |-> o1.ZeroNil]
        r == visit(w, ValueOf(v), FALSE, NoVisitOpts)
    IN  [sum |-> r.sum, err |-> r.err,
         opts |-> IF passNil THEN o ELSE o1,
         hasher |-> IF passNil THEN hobj ELSE r.h]


\* ---------------------------------------------------------------- inputs

\* the longest slice, array, map or field list among the inputs
MaxLen == 3

\* the values the elements of a collection are drawn from
Elems == 1..3

RECURSIVE SeqsOfLen(_)
SeqsOfLen(n) ==
    IF n = 0 THEN {<<>>}
    ELSE {Append(s, x) : s \in SeqsOfLen(n - 1), x \in Elems}

Seqs == UNION {SeqsOfLen(n) : n \in 0..MaxLen}

Injective(xs) == \A i, j \in 1..Len(xs) : xs[i] = xs[j] => i = j

Count(xs, x) == Cardinality({i \in 1..Len(xs) : xs[i] = x})

\* ys holds the elements of xs, in any order
IsPerm(xs, ys) ==
    /\ Len(xs) = Len(ys)
    /\ \A x \in Elems : Count(xs, x) = Count(ys, x)

\* templates whose value is a collection built from xs, and those (one value
\* per k, xs = <<k>>) that are not
CollectionTpls == {"sliceInt", "array", "map", "setField", "seqField", "fields"}

KeyedTpls == {"map", "fields"}

ScalarTpls ==
    {"bool", "int", "int8", "int16", "int32", "uint64", "float32", "float64",
     "complex64", "named", "string", "misc", "ptr", "record", "hooked", "errs"}

IntTpls == {"int", "int8", "int16", "int32", "uint64"}

\* hidden fields added to a "fields" record: none, or variant 1..4
HidVariants == 0..4

\* how the value is handed to Hash: as it is, behind a pointer, as a nil
\* pointer to its type, as a pointer to the zero value of its type
Indirections == {"asis", "ptr", "nil", "zero"}

Name(x) == <<64 + x>>

IntSlice(xs) == SliceV(IntType, [i \in 1..Len(xs) |-> IntV("int", xs[i])])

\* the hidden fields of variant hid that come before / after the others
HiddenBefore(hid) ==
    CASE hid = 1 -> <<FT(<<73, 103, 110>>, "hash", "ignore", ChanV)>>
      [] hid = 4 -> <<FT(<<73, 103, 110>>, "hash", "ignore", IntV("int", 3)),
                      F(<<112>>, StringV(<<122>>))>>
      [] OTHER -> <<>>

HiddenAfter(hid) ==
    CASE hid = 2 -> <<FT(<<68, 97, 115, 104>>, "hash", "-", StringV(<<122, 122>>))>>
      [] hid = 3 -> <<F(<<112, 114, 105, 118>>, IntV("int", 9)), F(Underscore, ChanV)>>
      [] hid = 4 -> <<FT(<<68>>, "hash", "-", Complex128V)>>
      [] OTHER -> <<>>

\* struct { A interface{}; S T `hash:"string"` }, T with or without String()
Record(hasStr) ==
    StructV(<<82>>, FALSE, FALSE,
            << F(<<65>>, StringV(<<97>>)),
               Field(<<83>>, "hash", "string", IntV("int", 1), hasStr, <<115>>, "yes") >>)

\* struct{ A, B, C interface{} }{"A", "B", map[string]interface{}{"C": "C"}}
Upstream ==
    StructV(<<>>, FALSE, FALSE,
            << F(<<65>>, IfaceV(StringV(<<65>>))),
               F(<<66>>, IfaceV(StringV(<<66>>))),
               F(<<67>>, IfaceV(MapV(StringT, IfaceT,
                    <<Entry(StringV(<<67>>), IfaceV(StringV(<<67>>)), "yes")>>))) >>)

\* a struct whose HashInclude answers inc for its field B
Hooked(inc) ==
    StructV(<<72>>, TRUE, FALSE,
            << Field(<<65>>, "", "", IntV("int", 1), FALSE, <<>>, "yes"),
               Field(<<66>>, "", "", StringV(<<98>>), FALSE, <<>>, inc) >>)

\* a struct whose HashIncludeMap answers inc for the entry "b" of its field M
MapHooked(inc) ==
    StructV(<<77>>, FALSE, TRUE,
            << F(<<77>>, MapV(StringT, IntType,
                   << Entry(StringV(<<97>>), IntV("int", 1), "yes"),
                      Entry(StringV(<<98>>), IntV("int", 2), inc) >>)) >>)

\* the value of template tpl with parameters xs and hidden fields hid
Base(tpl, xs, hid) ==
    CASE tpl = "sliceInt" -> IntSlice(xs)
      [] tpl = "array" -> ArrayV(StringT, [i \in 1..Len(xs) |-> StringV(<<96 + xs[i]>>)])
      [] tpl = "map" ->
           MapV(StringT, IntType,
                [i \in 1..Len(xs) |->
                   Entry(StringV(<<96 + xs[i]>>), IntV("int", xs[i]), "yes")])
      [] tpl = "setField" ->
           StructV(<<83>>, FALSE, FALSE, <<FT(<<73>>, "hash", "set", IntSlice(xs))>>)
      [] tpl = "seqField" ->
           StructV(<<83>>, FALSE, FALSE, <<F(<<73>>, IntSlice(xs))>>)
      [] tpl = "fields" ->
           StructV(<<84>>, FALSE, FALSE,
                   HiddenBefore(hid)
                   \o [i \in 1..Len(xs) |-> F(Name(xs[i]), IntV("int", xs[i]))]
                   \o HiddenAfter(hid))
      [] tpl = "bool" -> BoolV(xs[1] = 2)
      [] tpl = "int" -> IntV("int", <<0, 12345, -2>>[xs[1]])
      [] tpl = "int8" -> IntV("int8", <<0, 1, -1>>[xs[1]])
      [] tpl = "int16" -> IntV("int16", <<0, 258, -2>>[xs[1]])
      [] tpl = "int32" -> IntV("int32", <<0, 65537, -3>>[xs[1]])
      [] tpl = "uint64" -> IntV("uint64", <<0, 1, 12345>>[xs[1]])
      [] tpl = "float32" ->
           Float32V(<<F32(0, 0, 0), F32(1, 0, 0), F32(0, 127, 0)>>[xs[1]])
      [] tpl = "float64" ->
           Float64V(<<F64(0, 0, 0, 0), F64(1, 0, 0, 0), F64(0, 1023, 524288, 0)>>[xs[1]])
      [] tpl = "complex64" ->
           Complex64V(<<F32(0, 0, 0), F32(1, 0, 0), F32(0, 127, 0)>>[xs[1]], F32(0, 128, 0))
      [] tpl = "named" ->
           <<NamedIntV("int", 0), NamedIntV("int", 5), NamedIntV("int8", 5)>>[xs[1]]
      [] tpl = "string" ->
           StringV(<< <<>>, <<97>>, <<104, 101, 108, 108, 111>> >>[xs[1]])
      [] tpl = "misc" -> <<IfaceV(StringV(<<97>>)), ChanV, Complex128V>>[xs[1]]
      [] tpl = "ptr" ->
           << PtrV(IntType, IntV("int", 5)), PtrV(IntType, Invalid),
              PtrV(StringT, StringV(<<97>>)) >>[xs[1]]
      [] tpl = "record" -> <<Record(FALSE), Record(TRUE), Upstream>>[xs[1]]
      [] tpl = "hooked" -> <<Hooked("no"), Hooked("err"), MapHooked("no")>>[xs[1]]
      [] tpl = "errs" ->
           << SliceV(IfaceT, <<IfaceV(IntV("int", 1)), IfaceV(ChanV)>>),
              MapHooked("err"),
              ArrayV(TypeOf(Record(FALSE)), <<Record(TRUE), Record(FALSE)>>) >>[xs[1]]

\* an input of Hash: template, parameters, hidden fields, indirection
Desc(tpl, xs, hid, ind) == [tpl |-> tpl, xs |-> xs, hid |-> hid, ind |-> ind]

NilDesc == Desc("nil", <<>>, 0, "asis")

Increasing(xs) == \A i, j \in 1..Len(xs) : i < j => xs[i] < xs[j]

Descs ==
    {Desc(tpl, xs, 0, "asis") : tpl \in CollectionTpls \ KeyedTpls, xs \in Seqs}
    \cup {Desc(tpl, xs, 0, "asis") :
            tpl \in KeyedTpls, xs \in {s \in Seqs : Injective(s)}}
    \cup {Desc("fields", xs, hid, "asis") :
            xs \in {s \in Seqs : Increasing(s) /\ Len(s) \in 1..2},
            hid \in HidVariants}
    \cup {Desc(tpl, <<k>>, 0, "asis") : tpl \in ScalarTpls, k \in Elems}
    \cup {Desc(tpl, <<1>>, 0, ind) :
            tpl \in ScalarTpls \cup {"sliceInt", "map", "fields"},
            ind \in Indirections}
    \cup {NilDesc}

\* the value Hash is called on
Build(d) ==
    IF d.tpl = "nil" THEN Invalid
    ELSE LET b == Base(d.tpl, d.xs, d.hid)
         IN  CASE d.ind = "asis" -> b
               [] d.ind = "ptr" -> PtrV(TypeOf(b), b)
               [] d.ind = "nil" -> PtrV(TypeOf(b), Invalid)
               [] d.ind = "zero" -> PtrV(TypeOf(b), Zero(TypeOf(b)))

\* the inputs a second call is made on after one on d: the same elements in
\* any order, the same record with other hidden fields, the same value behind
\* another indirection, another scalar of the same type
Related(d, e) ==
    /\ d.tpl = e.tpl
    /\ \/ IsPerm(d.xs, e.xs) /\ d.hid = e.hid /\ d.ind = e.ind
       \/ d.xs = e.xs /\ d.ind = e.ind
       \/ d.xs = e.xs /\ d.hid = e.hid
       \/ d.tpl \in ScalarTpls /\ d.ind = "asis" /\ e.ind = "asis"

\* ------------------------------------------------------------ the program

VARIABLES opts, hasher, useNil, prev, cur

vars == <<opts, hasher, useNil, prev, cur>>

\* the HashOptions values a caller builds: Hasher unset, the default hasher
\* or a hasher whose Write reports an error; TagName unset, "hash" or "json"
Configs ==
    {HashOptions(c[1], c[2], zn) :
       c \in {<<"nil", "">>, <<"fnv", "hash">>, <<"failw", "json">>,
              <<"failw", "">>},
       zn \in BOOLEAN}

NoCall ==
    [valid |-> FALSE, d |-> NilDesc, before |-> ZeroOptions, passNil |-> FALSE,
     reused |-> FALSE, sum |-> ZeroU64, err |-> NoErr]

Init ==
    /\ opts = ZeroOptions
    /\ hasher = NoHasher
    /\ useNil = FALSE
    /\ prev = NoCall
    /\ cur = NoCall

\* the caller builds a HashOptions value o with a new hasher, to pass &o
Configure(o) ==
    /\ opts' = o
    /\ hasher' = IF o.Hasher = "nil" THEN NoHasher
                 ELSE [kind |-> o.Hasher, st |-> Offset64]
    /\ useNil' = FALSE
    /\ prev' = NoCall
    /\ cur' = NoCall

\* the caller decides to pass nil options
ConfigureNil ==
    /\ opts' = ZeroOptions
    /\ hasher' = NoHasher
    /\ useNil' = TRUE
    /\ prev' = NoCall
    /\ cur' = NoCall

\* the caller calls Hash(Build(d), &opts) (or Hash(Build(d), nil)): a first
\* call, then one more on a related input with the options the first left
CallHash(d) ==
    /\ ~prev.valid
    /\ cur.valid => Related(cur.d, d)
    /\ \E r \in {Hash(Build(d), useNil, opts, hasher)} :
          /\ opts' = r.opts
          /\ hasher' = r.hasher
          /\ cur' = [valid |-> TRUE, d |-> d, before |-> opts, passNil |-> useNil,
                     reused |-> ~useNil /\ opts.Hasher # "nil" /\ hasher.st # Offset64,
                     sum |-> r.sum, err |-> r.err]
    /\ prev' = cur
    /\ UNCHANGED useNil

Next ==
    \/ \E o \in Configs : Configure(o)
    \/ ConfigureNil
    \/ \E d \in Descs : CallHash(d)

Spec == Init /\ [][Next]_vars

\* ---------------------------------------------------------------- claims

\* two calls were made, the second on an input related to the first's, with
\* the options as the first call left them
Pair == prev.valid /\ cur.valid

SameResult == prev.sum = cur.sum /\ prev.err = cur.err

\* the tag name, the ZeroNil flag and the hasher call c ran with
EffTag(c) == IF c.passNil \/ c.before.TagName = "" THEN "hash" ELSE c.before.TagName

EffZeroNil(c) == ~c.passNil /\ c.before.ZeroNil

EffHasher(c) == IF c.passNil \/ c.before.Hasher = "nil" THEN "fnv" ELSE c.before.Hasher

\* both calls took the value as it is, without hidden fields
Plain == prev.d.ind = "asis" /\ cur.d.ind = "asis" /\ prev.d.hid = 0 /\ cur.d.hid = 0

\* the second call's input holds the first's elements in another order
Reordered == IsPerm(prev.d.xs, cur.d.xs) /\ prev.d.xs # cur.d.xs

\* the digest a call like c, with a hasher just made, returns for v
DigestOf(c, v) ==
    Hash(v, c.passNil, c.before, [kind |-> EffHasher(c), st |-> Offset64]).sum

\* C1: a map, and a slice in a field tagged "set" (under the tag name in
\* force), hash to the same result whatever the order of the entries or
\* elements.
C1_OrderInsensitive ==
    ( /\ Pair /\ Plain
      /\ IsPerm(prev.d.xs, cur.d.xs)
      /\ \/ cur.d.tpl = "map"
         \/ cur.d.tpl = "setField" /\ EffTag(cur) = "hash" )
    => SameResult

C1_Witness ==
    /\ Pair /\ Plain
    /\ cur.d.tpl = "setField" /\ EffTag(cur) = "hash"
    /\ prev.d.xs = <<1, 2, 3>> /\ cur.d.xs = <<3, 2, 1>>
    /\ cur.err = NoErr /\ cur.sum # ZeroU64 /\ prev.sum = cur.sum

\* C2: an array, and a slice not tagged "set", hash as the left-to-right fold
\* acc = ordered(acc, visit(elem_i)) from 0, and two such sequences holding
\* the same elements in a different order hash to different digests.
C2_OrderSensitive ==
    ( /\ Pair /\ Plain
      /\ cur.d.tpl \in {"sliceInt", "array", "seqField"}
      /\ prev.err = NoErr /\ cur.err = NoErr )
    => /\ Reordered => prev.sum # cur.sum
       /\ (cur.d.tpl = "sliceInt" /\ Len(cur.d.xs) > 0) =>
            LET n == Len(cur.d.xs)
                init == DigestOf(cur, IntSlice(SubSeq(cur.d.xs, 1, n - 1)))
                last == DigestOf(cur, IntV("int", cur.d.xs[n]))
            IN  cur.sum = FnvWrite(Offset64, init \o last, 1)

C2_Witness ==
    /\ Pair /\ Plain
    /\ cur.d.tpl = "array"
    /\ prev.d.xs = <<1, 2, 3>> /\ cur.d.xs = <<3, 2, 1>>
    /\ prev.err = NoErr /\ cur.err = NoErr /\ prev.sum # cur.sum
    /\ DigestOf(cur, StringV(<<97>>)) # DigestOf(cur, StringV(<<99>>))

\* C3: with ZeroNil set, a nil pointer to T hashes to the same result as a
\* pointer to the zero value of T, for every T (a pointer type included).
C3_ZeroNilEquivalence ==
    ( /\ Pair
      /\ prev.d.ind = "nil" /\ cur.d.ind = "zero" /\ prev.d.xs = cur.d.xs
      /\ EffZeroNil(cur) )
    => SameResult

\* C4 as stated: with ZeroNil unset, a nil pointer to an integer and a
\* pointer to the integer 0 hash to different digests.
C4_NilDiffersFromZero ==
    ( /\ Pair
      /\ cur.d.tpl \in IntTpls
      /\ prev.d.ind = "nil" /\ cur.d.ind = "zero"
      /\ ~EffZeroNil(cur) )
    => prev.sum # cur.sum

\* C4 amended: with ZeroNil unset, a nil pointer hashes as the int 0, so a nil
\* pointer to an integer and a pointer to the integer 0 hash to the same
\* digest when the integer type is 64 bits wide (int, uint64) and to
\* different digests when it is narrower (int8, int16, int32).
C4_NilHashesAsInt0 ==
    ( /\ Pair
      /\ cur.d.tpl \in IntTpls
      /\ prev.d.ind = "nil" /\ cur.d.ind = "zero"
      /\ ~EffZeroNil(cur) )
    => /\ prev.err = NoErr /\ cur.err = NoErr
       /\ prev.sum = DigestOf(prev, IntV("int", 0))
       /\ cur.d.tpl \in {"int", "uint64"} => prev.sum = cur.sum
       /\ cur.d.tpl \in {"int8", "int16", "int32"} => prev.sum # cur.sum

C4_Witness ==
    /\ Pair
    /\ prev.d = Desc("int8", <<1>>, 0, "nil") /\ cur.d = Desc("int8", <<1>>, 0, "zero")
    /\ ~EffZeroNil(cur)
    /\ prev.sum # cur.sum

\* C5 as stated: two records of the same type name holding the same fields
\* in a different order hash to different digests.
C5_FieldOrderSensitive ==
    (Pair /\ Plain /\ cur.d.tpl = "fields" /\ Reordered) => prev.sum # cur.sum

\* C5 amended: two records of the same type name holding the same fields in
\* a different order hash to the same result.
C5_FieldOrderInsensitive ==
    (Pair /\ Plain /\ cur.d.tpl = "fields" /\ Reordered) => SameResult

C5_Witness ==
    /\ Pair /\ Plain
    /\ cur.d.tpl = "fields"
    /\ prev.d.xs = <<1, 2, 3>> /\ cur.d.xs = <<3, 1, 2>>
    /\ cur.err = NoErr /\ cur.sum # ZeroU64 /\ prev.sum = cur.sum

\* C6: two records of the same type name with the same exported fields not
\* tagged "ignore" or "-" hash to the same result, whatever unexported and
\* ignored fields each has and whatever those fields hold.
C6_HiddenFieldsIgnored ==
    ( /\ Pair
      /\ cur.d.tpl = "fields"
      /\ prev.d.xs = cur.d.xs /\ prev.d.ind = cur.d.ind
      /\ EffTag(cur) = "hash" )
    => SameResult

C6_Witness ==
    /\ Pair
    /\ cur.d.tpl = "fields" /\ EffTag(cur) = "hash"
    /\ prev.d.xs = cur.d.xs /\ Len(cur.d.xs) = 2
    /\ prev.d.hid = 3 /\ cur.d.hid = 4
    /\ cur.err = NoErr /\ cur.sum # ZeroU64 /\ prev.sum = cur.sum

\* C7: a call that returns an error returns the digest 0 with it, and a record
\* whose field tagged "string" has no String method fails with ErrNotStringer
\* naming that field.
C7_ErrorMeansNoDigest ==
    cur.valid =>
      /\ cur.err # NoErr => cur.sum = ZeroU64
      /\ ( /\ cur.d = Desc("record", <<1>>, 0, "asis")
           /\ EffTag(cur) = "hash" /\ EffHasher(cur) = "fnv" )
         => cur.err = ErrNotStringer(<<83>>)

\* C8: a call on a hasher left in any state by an earlier call returns what
\* the call on the same value with a hasher just made returned.
C8_Deterministic == (Pair /\ prev.d = cur.d) => SameResult

C8_Witness ==
    /\ Pair /\ prev.d = cur.d
    /\ ~prev.reused /\ cur.reused
    /\ cur.d.tpl = "seqField" /\ Len(cur.d.xs) = 3
    /\ cur.err = NoErr /\ cur.sum # ZeroU64 /\ prev.sum = cur.sum

\* C9 as stated: the floats 0.0 and -0.0 of the same width hash to the same
\* digest.
C9_SignedZerosCollide ==
    ( /\ Pair /\ Plain
      /\ cur.d.tpl \in {"float32", "float64"}
      /\ prev.d.xs = <<1>> /\ cur.d.xs = <<2>> )
    => prev.sum = cur.sum

\* C9 amended: a float is hashed as the little-endian bytes of its IEEE-754
\* bit pattern, so 0.0 and -0.0 of the same width, which differ in the sign
\* bit, hash to different digests.
C9_SignedZerosDiffer ==
    ( /\ Pair /\ Plain
      /\ cur.d.tpl \in {"float32", "float64"}
      /\ prev.d.xs = <<1>> /\ cur.d.xs = <<2>> )
    => /\ prev.err = NoErr /\ cur.err = NoErr
       /\ prev.sum # cur.sum
       /\ cur.sum = FnvWrite(Offset64,
                             IF cur.d.tpl = "float32" THEN <<0, 0, 0, 128>>
                             ELSE <<0, 0, 0, 0, 0, 0, 0, 128>>, 1)

C9_Witness ==
    /\ Pair /\ Plain
    /\ cur.d.tpl = "float32"
    /\ prev.d.xs = <<1>> /\ cur.d.xs = <<2>>
    /\ prev.sum # cur.sum

\* C10 as stated: after Hash returns, every field of the caller's options
\* holds the value it held before the call.
C10_OptionsUnchanged == (cur.valid /\ ~cur.passNil) => opts = cur.before

\* C10 amended: after Hash returns, ZeroNil holds the value it held before,
\* and so do a Hasher and a TagName the caller had set; a Hasher left unset
\* now holds the default FNV hasher and a TagName left unset is "hash".
C10_OptionsDefaulted ==
    (cur.valid /\ ~cur.passNil) =>
      /\ opts.ZeroNil = cur.before.ZeroNil
      /\ opts.Hasher = (IF cur.before.Hasher = "nil" THEN "fnv" ELSE cur.before.Hasher)
      /\ opts.TagName = (IF cur.before.TagName = "" THEN "hash" ELSE cur.before.TagName)

C10_Witness ==
    /\ cur.valid /\ ~cur.passNil /\ ~prev.valid
    /\ cur.before = HashOptions("nil", "", TRUE)
    /\ opts = HashOptions("fnv", "hash", TRUE)

====
